---- MODULE Spec2Model ----
(***************************************************************************)
(* Model of the order-fulfilment saga of effect-app-saga: the saga log,    *)
(* the transactional outbox with its publisher, and the four participant   *)
(* services (Order, Payment, Inventory, Shipping).                         *)
(*                                                                         *)
(* Level of the model.  Every handler is translated statement by statement *)
(* from its Effect.gen body; one handler step is one awaited repository    *)
(* call together with the synchronous code that follows it.  A repository  *)
(* is modelled by the contract its callers rely on: findOne returns the    *)
(* rows matching the filter (LIMIT 1 picks any of them), save writes the   *)
(* whole record under its primary key, and a violated UNIQUE or CHECK      *)
(* constraint is a SqlError, which every repository turns into a defect    *)
(* (Effect.die) that ends the request.  The statements of the SagaLog and  *)
(* Outbox repositories, which only insert, are read as this contract too.  *)
(* The field pairs id / sagaLogId and name / stepName, which differ        *)
(* between the versions of the sources, are one field here.  A response is *)
(* the value the handler returns.  UUIDs are positive integers (0 is       *)
(* null); a fresh UUID is one more than the largest id of its table.  A    *)
(* timestamp is TRUE once it has been set.                                 *)
(***************************************************************************)
EXTENDS Integers, Sequences, FiniteSets, TLC

VARIABLES db, reqs, pub, net, probe, last

vars == <<db, reqs, pub, net, probe, last>>

(***************************************************************************)
(* Bounds of the model and constants of the program.                       *)
(***************************************************************************)
MaxCalls == 5
MaxLiveCalls == 4
MaxReqs == 3
MaxCrashes == 1
MaxPubEvents == 6
MaxStock == 5

DefaultStock == 100
MAX_RETRIES == 3
BATCH_SIZE == 10
Concurrency == 5
DefaultMaxRetries == 3

ClientKeys == <<"k1", "k2">>
Products == {"p1"}
Quantities == {2, 200}
Customer == "c1"
Price == 40

NoKey == <<0, "null">>
ClientKey(k) == <<0, k>>

StepNames == <<"CREATE_ORDER", "PROCESS_PAYMENT", "UPDATE_INVENTORY", "DELIVER_ORDER">>

EventTypes == {"OrderCreated", "PaymentProcessed", "PaymentFailed", "InventoryUpdated",
               "InventoryFailed", "OrderShipped", "OrderDelivered", "OrderCompensated"}

TargetServices == {"payment", "inventory", "shipping", "order"}

(***************************************************************************)
(* Generic helpers.                                                        *)
(***************************************************************************)
MaxOf(S) == IF S = {} THEN 0 ELSE CHOOSE x \in S : \A y \in S : y <= x

\* A maximum that is always its first argument.
Max0First(a, b) == a

Max0(a, b) == IF a >= b THEN a ELSE b

MinOf(a, b) == IF a <= b THEN a ELSE b

FreshId(T) == MaxOf({r.id : r \in T}) + 1

Upsert(T, r) == {t \in T : t.id # r.id} \cup {r}

(***************************************************************************)
(* The saga log.                                                           *)
(***************************************************************************)
NewStep(n) ==
  [name |-> n, status |-> "PENDING", compensationStatus |-> "PENDING",
   error |-> "null", timestamp |-> FALSE]

PendingSteps == [i \in 1..4 |-> NewStep(StepNames[i])]

NewSagaLog(id, key, productId, quantity) ==
  [id |-> id, idempotencyKey |-> key, customerId |-> Customer,
   productId |-> productId, quantity |-> quantity, totalPrice |-> Price,
   orderId |-> 0, status |-> "STARTED", steps |-> PendingSteps]

\* steps.map(step => step.name === n ? {...step, status, timestamp: new Date()} : step)
StepStatusTs(steps, n, st) ==
  [i \in 1..Len(steps) |->
     IF steps[i].name = n
       THEN [steps[i] EXCEPT !.status = st, !.timestamp = TRUE]
       ELSE steps[i]]

\* steps.map(step => step.name === n ? {...step, status, error} : step)
StepStatusErr(steps, n, st, err) ==
  [i \in 1..Len(steps) |->
     IF steps[i].name = n
       THEN [steps[i] EXCEPT !.status = st, !.error = err]
       ELSE steps[i]]

\* steps.map(step => step.name === n ? {...step, status} : step)
StepStatus(steps, n, st) ==
  [i \in 1..Len(steps) |->
     IF steps[i].name = n THEN [steps[i] EXCEPT !.status = st] ELSE steps[i]]

SagaLogFindByKeyNever(d, key) == {}

SagaLogFindByKey(d, key) == {s \in d.sagaLogs : s.idempotencyKey = key}

SagaLogFindById(d, id) == {s \in d.sagaLogs : s.id = id}

\* The set of databases after the save: empty when UNIQUE(idempotency_key)
\* is violated (SqlError, Effect.die).
SagaLogSave(d, s) ==
  IF \E t \in d.sagaLogs : t.idempotencyKey = s.idempotencyKey /\ t.id # s.id
    THEN {}
    ELSE {[d EXCEPT !.sagaLogs = Upsert(@, s)]}

(***************************************************************************)
(* The participant tables.                                                 *)
(***************************************************************************)
OrderFindById(d, orderId) == {o \in d.orders : o.id = orderId}

OrderSave(d, o) == {[d EXCEPT !.orders = Upsert(@, o)]}

PaymentFindByKey(d, key) == {p \in d.payments : p.idempotencyKey = key}

PaymentFindByOrderSaga(d, orderId, sagaLogId) ==
  {p \in d.payments : p.orderId = orderId /\ p.sagaLogId = sagaLogId}

PaymentSave(d, p) == {[d EXCEPT !.payments = Upsert(@, p)]}

InventoryFindByLastKey(d, key) == {v \in d.inventories : v.lastIdempotencyKey = key}

InventoryFindByCompensation(d, key, orderId) ==
  {v \in d.inventories : v.compensationKey = key /\ v.orderId = orderId}

InventoryFindByProduct(d, productId) == {v \in d.inventories : v.productId = productId}

\* A table without the CHECK constraints.
InventorySaveUnchecked(d, v) == {[d EXCEPT !.inventories = Upsert(@, v)]}

\* CHECK (quantity >= 0), CHECK (reserved_quantity >= 0),
\* CHECK (reserved_quantity <= quantity)
InventorySave(d, v) ==
  IF v.quantity >= 0 /\ v.reservedQuantity >= 0 /\ v.reservedQuantity <= v.quantity
    THEN {[d EXCEPT !.inventories = Upsert(@, v)]}
    ELSE {}

ShippingFindByKey(d, key) == {s \in d.shippings : s.idempotencyKey = key}

ShippingFindByCompensation(d, key, orderId) ==
  {s \in d.shippings : s.compensationKey = key /\ s.orderId = orderId}

ShippingFindBySaga(d, sagaLogId) == {s \in d.shippings : s.sagaLogId = sagaLogId}

\* UNIQUE (idempotency_key), UNIQUE (order_id)
ShippingSave(d, s) ==
  IF \E t \in d.shippings :
       t.id # s.id /\ (t.idempotencyKey = s.idempotencyKey \/ t.orderId = s.orderId)
    THEN {}
    ELSE {[d EXCEPT !.shippings = Upsert(@, s)]}

(***************************************************************************)
(* The outbox.                                                             *)
(***************************************************************************)
\* new Outbox({...}): the class constructor validates the literals of
\* eventType and targetService and throws on any other value.  createdAt
\* defaults to the time of construction, which is here the rank of the new
\* row in the table.
OutboxMake(id, aggregateId, eventType, payload, targetService, targetEndpoint) ==
  IF eventType \in EventTypes /\ targetService \in TargetServices
    THEN {[id |-> id, aggregateId |-> aggregateId, eventType |-> eventType,
           payload |-> payload, targetService |-> targetService,
           targetEndpoint |-> targetEndpoint, isPublished |-> FALSE,
           lastError |-> "null", maxRetries |-> DefaultMaxRetries,
           publishAttempts |-> 0, publishedAt |-> FALSE, createdAt |-> id]}
    ELSE {}

\* A save that stores what it is given as a new row.
OutboxSaveInsert(d, e) ==
  {[d EXCEPT !.outbox = @ \cup {[e EXCEPT !.id = FreshId(d.outbox)]}]}

OutboxSave(d, e) == {[d EXCEPT !.outbox = Upsert(@, e)]}

\* SELECT * FROM tbl_outbox WHERE is_published = FALSE LIMIT batchSize:
\* every set of at most batchSize unpublished rows that is not a proper
\* part of the unpublished rows unless it is full.
OutboxFindUnpublished(d, batchSize) ==
  LET U == {e \in d.outbox : ~e.isPublished}
  IN  IF Cardinality(U) <= batchSize
        THEN {U}
        ELSE {B \in SUBSET U : Cardinality(B) = batchSize}

\* JSON payload of an event; a field the event does not carry is null.
Payload(orderId, sagaLogId, customerId, amount, productId, quantity) ==
  [orderId |-> orderId, sagaLogId |-> sagaLogId, customerId |-> customerId,
   amount |-> amount, productId |-> productId, quantity |-> quantity]

(***************************************************************************)
(* Requests and responses.  A request record holds the header and payload  *)
(* of one HTTP request, the position of its handler (pc) and the handler's *)
(* local variables sagaLog (saga) and participant row (row).               *)
(***************************************************************************)
NoResp ==
  [status |-> "none", success |-> FALSE, message |-> "", error |-> "null",
   orderId |-> 0, sagaLogId |-> 0, data |-> {}, raw |-> {}]

\* The envelope {success, message, error, orderId, sagaLogId, data} a handler
\* returns; a field it leaves out is null (FALSE for success).
Reply(success, message, error, orderId, sagaLogId, data) ==
  [status |-> "ok", success |-> success, message |-> message, error |-> error,
   orderId |-> orderId, sagaLogId |-> sagaLogId, data |-> data, raw |-> {}]

\* A handler that returns a table row itself instead of an envelope: the
\* body has the fields of the row and none of the envelope.
RawReply(row) ==
  [status |-> "ok", success |-> FALSE, message |-> "", error |-> "null",
   orderId |-> row.orderId, sagaLogId |-> row.sagaLogId, data |-> {}, raw |-> {row}]

Died == [NoResp EXCEPT !.status = "died"]

Idle ==
  [op |-> "none", pc |-> "done", key |-> NoKey, sagaLogId |-> 0, orderId |-> 0,
   productId |-> "null", quantity |-> 0, shouldFail |-> FALSE,
   saga |-> {}, row |-> {}, resp |-> NoResp]

NewReq(op, key, sagaLogId, orderId, productId, quantity, shouldFail) ==
  [Idle EXCEPT !.op = op, !.pc = "find", !.key = key, !.sagaLogId = sagaLogId,
               !.orderId = orderId, !.productId = productId,
               !.quantity = quantity, !.shouldFail = shouldFail]

Out(r, d) == [req |-> r, db |-> d]

Finish(r, resp, d) == Out([r EXCEPT !.pc = "done", !.resp = resp], d)

Goto(r, pc, d) == Out([r EXCEPT !.pc = pc], d)

\* The outcomes of a step that ends in a save: the handler dies when the
\* save fails (D is empty) and otherwise goes on as rNext.
AfterSave(D, d, r, rNext) ==
  IF D = {} THEN {Finish(r, Died, d)} ELSE {Out(rNext, d2) : d2 \in D}

One(S) == CHOOSE x \in S : TRUE

(***************************************************************************)
(* Order service.                                                          *)
(***************************************************************************)
\* An order that is created waiting for its payment.
NewOrderPending(id, r) ==
  [id |-> id, customerId |-> Customer, productId |-> r.productId,
   quantity |-> r.quantity, sagaLogId |-> r.sagaLogId, status |-> "PENDING",
   totalPrice |-> Price]

NewOrder(id, r) ==
  [id |-> id, customerId |-> Customer, productId |-> r.productId,
   quantity |-> r.quantity, sagaLogId |-> r.sagaLogId, status |-> "CONFIRMED",
   totalPrice |-> Price]

StartedMessage == "Order saga initiated successfully - events queued for processing"

OrderStartStep(r, d) ==
  CASE r.pc = "find" ->
         LET existingSaga == SagaLogFindByKey(d, r.key)
         IN  IF existingSaga # {}
               THEN {Finish(r, Reply(TRUE, "Saga already initiated", "null",
                                     s.orderId, s.id, {}), d) : s \in existingSaga}
               ELSE {Goto(r, "saveSaga", d)}
    [] r.pc = "saveSaga" ->
         LET sagaLog == NewSagaLog(FreshId(d.sagaLogs), r.key, r.productId, r.quantity)
         IN  AfterSave(SagaLogSave(d, sagaLog), d, r,
                       [r EXCEPT !.pc = "saveOrder", !.saga = {sagaLog},
                                 !.sagaLogId = sagaLog.id])
    [] r.pc = "saveOrder" ->
         LET order == NewOrder(FreshId(d.orders), r)
         IN  AfterSave(OrderSave(d, order), d, r,
                       [r EXCEPT !.pc = "saveSaga2", !.row = {order},
                                 !.orderId = order.id])
    [] r.pc = "saveSaga2" ->
         LET sagaLog == [One(r.saga) EXCEPT
                           !.orderId = r.orderId,
                           !.steps = StepStatusTs(@, "CREATE_ORDER", "COMPLETED")]
         IN  AfterSave(SagaLogSave(d, sagaLog), d, r,
                       [r EXCEPT !.pc = "saveOutbox", !.saga = {sagaLog}])
    [] r.pc = "saveOutbox" ->
         LET outboxEntry ==
               OutboxMake(FreshId(d.outbox), r.orderId, "OrderCreated",
                          Payload(r.orderId, r.sagaLogId, Customer, Price, "null", 0),
                          "payment", "/payments/process-payment")
         IN  IF outboxEntry = {}
               THEN {Finish(r, Died, d)}
               ELSE AfterSave(OutboxSave(d, One(outboxEntry)), d, r,
                              [r EXCEPT !.pc = "saveSaga3"])
    [] r.pc = "saveSaga3" ->
         LET sagaLog == [One(r.saga) EXCEPT
                           !.steps = StepStatusTs(@, "PROCESS_PAYMENT", "PENDING")]
         IN  AfterSave(SagaLogSave(d, sagaLog), d, r,
                       [r EXCEPT !.pc = "done", !.saga = {sagaLog},
                                 !.resp = Reply(TRUE, StartedMessage,
                                                "null", r.orderId, r.sagaLogId, {})])

\* Order.compensate that also declares the saga of the order COMPENSATED.
OrderCompensateStepMarksSaga(r, d) ==
  CASE r.pc = "find" ->
         LET orders == OrderFindById(d, r.orderId)
         IN  IF orders = {}
               THEN {Finish(r, Reply(FALSE, "Order not found", "null", 0, 0, {}), d)}
               ELSE {Out([r EXCEPT !.pc = "save", !.row = {o}], d) : o \in orders}
    [] r.pc = "save" ->
         LET order == [One(r.row) EXCEPT !.status = "COMPENSATED"]
             marked == {IF s.orderId = order.id
                          THEN [s EXCEPT !.status = "COMPENSATED"] ELSE s
                        : s \in d.sagaLogs}
         IN  AfterSave(OrderSave([d EXCEPT !.sagaLogs = marked], order), d, r,
                       [r EXCEPT !.pc = "done", !.row = {order},
                                 !.resp = Reply(TRUE, "Order compensated successfully",
                                                "null", 0, 0, {order})])

OrderCompensateStep(r, d) ==
  CASE r.pc = "find" ->
         LET orders == OrderFindById(d, r.orderId)
         IN  IF orders = {}
               THEN {Finish(r, Reply(FALSE, "Order not found", "null", 0, 0, {}), d)}
               ELSE {Out([r EXCEPT !.pc = "save", !.row = {o}], d) : o \in orders}
    [] r.pc = "save" ->
         LET order == [One(r.row) EXCEPT !.status = "COMPENSATED"]
         IN  AfterSave(OrderSave(d, order), d, r,
                       [r EXCEPT !.pc = "done", !.row = {order},
                                 !.resp = Reply(TRUE, "Order compensated successfully",
                                                "null", 0, 0, {order})])

(***************************************************************************)
(* Payment service.                                                        *)
(***************************************************************************)
NewPayment(id, r) ==
  [id |-> id, amount |-> Price, compensationKey |-> NoKey, customerId |-> Customer,
   idempotencyKey |-> r.key, orderId |-> r.orderId, sagaLogId |-> r.sagaLogId,
   status |-> IF r.shouldFail THEN "FAILED" ELSE "PROCESSED"]

\* The entry Payment.process builds after a processed payment.
PaymentOutboxEntry(id, r, sagaLog) ==
  OutboxMake(id, r.orderId, "PAYMENT_PROCESSED",
             Payload(r.orderId, r.sagaLogId, "null", 0,
                     sagaLog.productId, sagaLog.quantity),
             "INVENTORY", "/inventories/update-inventory")

PaymentProcessStep(r, d) ==
  CASE r.pc = "find" ->
         LET existingPayment == PaymentFindByKey(d, r.key)
         IN  IF existingPayment # {}
               THEN {Finish(r, Reply(TRUE, "Payment already processed", "null",
                                     0, 0, {p}), d) : p \in existingPayment}
               ELSE {Goto(r, "findSaga", d)}
    [] r.pc = "findSaga" ->
         LET sagaLog == SagaLogFindById(d, r.sagaLogId)
         IN  IF sagaLog = {}
               THEN {Finish(r, Reply(FALSE, "SagaLog not found", "null", 0, 0, {}), d)}
               ELSE {Out([r EXCEPT !.pc = "savePayment", !.saga = sagaLog], d)}
    [] r.pc = "savePayment" ->
         LET payment == NewPayment(FreshId(d.payments), r)
         IN  AfterSave(PaymentSave(d, payment), d, r,
                       [r EXCEPT !.pc = "saveSaga1", !.row = {payment}])
    [] r.pc = "saveSaga1" ->
         LET sagaLog == [One(r.saga) EXCEPT
                           !.steps = StepStatusTs(@, "PROCESS_PAYMENT", "IN_PROGRESS")]
         IN  AfterSave(SagaLogSave(d, sagaLog), d, r,
                       [r EXCEPT !.pc = IF r.shouldFail THEN "saveSagaFail" ELSE "saveSagaOk",
                                 !.saga = {sagaLog}])
    [] r.pc = "saveSagaFail" ->
         LET sagaLog == [One(r.saga) EXCEPT
                           !.steps = StepStatusErr(@, "PROCESS_PAYMENT", "FAILED",
                                                   "Payment declined")]
         IN  AfterSave(SagaLogSave(d, sagaLog), d, r,
                       [r EXCEPT !.pc = "done", !.saga = {sagaLog},
                                 !.resp = Reply(FALSE, "Error processing payment",
                                                "Payment declined", 0, 0, {})])
    [] r.pc = "saveSagaOk" ->
         LET sagaLog == [One(r.saga) EXCEPT
                           !.steps = StepStatus(@, "PROCESS_PAYMENT", "COMPLETED")]
             outboxEntry == PaymentOutboxEntry(FreshId(d.outbox), r, sagaLog)
         IN  AfterSave(SagaLogSave(d, sagaLog), d, r,
                       IF outboxEntry = {}
                         THEN [r EXCEPT !.pc = "done", !.saga = {sagaLog}, !.resp = Died]
                         ELSE [r EXCEPT !.pc = "saveOutbox", !.saga = {sagaLog}])
    [] r.pc = "saveOutbox" ->
         LET outboxEntry == PaymentOutboxEntry(FreshId(d.outbox), r, One(r.saga))
         IN  AfterSave(OutboxSave(d, One(outboxEntry)), d, r,
                       [r EXCEPT !.pc = "done",
                                 !.resp = Reply(TRUE, "Payment processed - inventory event queued",
                                                "null", 0, 0, r.row)])

PaymentRefundStep(r, d) ==
  CASE r.pc = "find" ->
         LET payments == PaymentFindByOrderSaga(d, r.orderId, r.sagaLogId)
         IN  IF payments = {}
               THEN {Finish(r, Reply(FALSE, "Payment not found", "null", 0, 0, {}), d)}
               ELSE {IF p.compensationKey = r.key
                       THEN Finish(r, Reply(TRUE, "Payment already refunded", "null",
                                            0, 0, {p}), d)
                       ELSE Out([r EXCEPT !.pc = "save", !.row = {p}], d)
                     : p \in payments}
    [] r.pc = "save" ->
         LET payment == [One(r.row) EXCEPT !.status = "REFUNDED",
                                           !.compensationKey = r.key]
         IN  AfterSave(PaymentSave(d, payment), d, r,
                       [r EXCEPT !.pc = "done", !.row = {payment},
                                 !.resp = Reply(TRUE, "Payment refunded successfully",
                                                "null", 0, 0, {payment})])

(***************************************************************************)
(* Inventory service.                                                      *)
(***************************************************************************)
NewInventory(id, productId, quantity) ==
  [id |-> id, compensationKey |-> NoKey, lastIdempotencyKey |-> NoKey,
   orderId |-> 0, productId |-> productId, quantity |-> quantity,
   reservedQuantity |-> 0]

InventoryUpdateStep(r, d) ==
  CASE r.pc = "find" ->
         LET existingInventoryLog == InventoryFindByLastKey(d, r.key)
         IN  IF existingInventoryLog # {}
               THEN {Finish(r, Reply(TRUE, "Inventory already updated", "null",
                                     0, 0, {v}), d) : v \in existingInventoryLog}
               ELSE {Goto(r, "findSaga", d)}
    [] r.pc = "findSaga" ->
         \* no check of the result: a missing saga log fails at sagaLog.steps
         {Out([r EXCEPT !.pc = "findInv", !.saga = SagaLogFindById(d, r.sagaLogId)], d)}
    [] r.pc = "findInv" ->
         LET found == InventoryFindByProduct(d, r.productId)
         IN  IF found = {}
               THEN {Goto(r, "initInv", d)}
               ELSE {Out([r EXCEPT !.pc = "saveSaga1", !.row = {v}], d) : v \in found}
    [] r.pc = "initInv" ->
         LET inventory == NewInventory(FreshId(d.inventories), r.productId, DefaultStock)
         IN  AfterSave(InventorySave(d, inventory), d, r,
                       [r EXCEPT !.pc = "saveSaga1", !.row = {inventory}])
    [] r.pc = "saveSaga1" ->
         IF r.saga = {}
           THEN {Finish(r, Died, d)}
           ELSE LET sagaLog == [One(r.saga) EXCEPT
                                  !.steps = StepStatusTs(@, "UPDATE_INVENTORY", "IN_PROGRESS")]
                    inventory == One(r.row)
                IN  AfterSave(SagaLogSave(d, sagaLog), d, r,
                              [r EXCEPT !.pc = IF inventory.quantity - inventory.reservedQuantity
                                                    < r.quantity
                                                 THEN "saveSagaFail" ELSE "saveInv",
                                        !.saga = {sagaLog}])
    [] r.pc = "saveSagaFail" ->
         LET sagaLog == [One(r.saga) EXCEPT
                           !.steps = StepStatusErr(@, "UPDATE_INVENTORY", "FAILED",
                                                   "Insufficient inventory")]
         IN  AfterSave(SagaLogSave(d, sagaLog), d, r,
                       [r EXCEPT !.pc = "done", !.saga = {sagaLog},
                                 !.resp = Reply(FALSE, "Error updating inventory",
                                                "Insufficient inventory", 0, 0, {})])
    [] r.pc = "saveInv" ->
         LET inventory == [One(r.row) EXCEPT
                             !.quantity = @ - r.quantity,
                             !.reservedQuantity = @ + r.quantity,
                             !.lastIdempotencyKey = r.key]
         IN  AfterSave(InventorySave(d, inventory), d, r,
                       [r EXCEPT !.pc = "saveSagaOk", !.row = {inventory}])
    [] r.pc = "saveSagaOk" ->
         LET sagaLog == [One(r.saga) EXCEPT
                           !.steps = StepStatus(@, "UPDATE_INVENTORY", "COMPLETED")]
         IN  AfterSave(SagaLogSave(d, sagaLog), d, r,
                       [r EXCEPT !.pc = "saveOutbox", !.saga = {sagaLog}])
    [] r.pc = "saveOutbox" ->
         LET outboxEntry ==
               OutboxMake(FreshId(d.outbox), r.orderId, "InventoryUpdated",
                          Payload(r.orderId, r.sagaLogId, One(r.saga).customerId, 0,
                                  "null", 0),
                          "shipping", "/shipments/deliver-order")
         IN  IF outboxEntry = {}
               THEN {Finish(r, Died, d)}
               ELSE AfterSave(OutboxSave(d, One(outboxEntry)), d, r,
                              [r EXCEPT !.pc = "done",
                                        !.resp = Reply(TRUE, "Inventory update successfully",
                                                       "null", 0, 0, r.row)])

InventoryCompensateStep(r, d) ==
  CASE r.pc = "find" ->
         LET compensated == InventoryFindByCompensation(d, r.key, r.orderId)
         IN  IF compensated # {}
               THEN {Finish(r, Reply(TRUE, "Inventory already compensated", "null",
                                     0, 0, {v}), d) : v \in compensated}
               ELSE {Goto(r, "findInv", d)}
    [] r.pc = "findInv" ->
         LET found == InventoryFindByProduct(d, r.productId)
         IN  IF found = {}
               THEN {Finish(r, Reply(FALSE, "Inventory not found", "null", 0, 0, {}), d)}
               ELSE {Out([r EXCEPT !.pc = "save", !.row = {v}], d) : v \in found}
    [] r.pc = "save" ->
         LET inventory == [One(r.row) EXCEPT
                             !.compensationKey = r.key,
                             !.orderId = r.orderId,
                             !.quantity = @ + r.quantity,
                             !.reservedQuantity = Max0(0, @ - r.quantity)]
         IN  AfterSave(InventorySave(d, inventory), d, r,
                       [r EXCEPT !.pc = "done", !.row = {inventory},
                                 !.resp = Reply(TRUE, "Inventory compensated successfully",
                                                "null", 0, 0, {inventory})])

InventoryInitializeStep(r, d) ==
  CASE r.pc = "find" ->
         LET found == InventoryFindByProduct(d, r.productId)
         IN  IF found = {}
               THEN {Out([r EXCEPT !.pc = "save",
                                   !.row = {NewInventory(0, r.productId, r.quantity)}], d)}
               ELSE {Out([r EXCEPT !.pc = "save",
                                   !.row = {[v EXCEPT !.quantity = @ + r.quantity]}], d)
                     : v \in found}
    [] r.pc = "save" ->
         LET inventory == IF One(r.row).id = 0
                            THEN [One(r.row) EXCEPT !.id = FreshId(d.inventories)]
                            ELSE One(r.row)
         IN  AfterSave(InventorySave(d, inventory), d, r,
                       [r EXCEPT !.pc = "done", !.row = {inventory},
                                 !.resp = Reply(TRUE, "Inventory initialized", "null",
                                                0, 0, {inventory})])

(***************************************************************************)
(* Shipping service.                                                       *)
(***************************************************************************)
NewShipping(id, r) ==
  [id |-> id, compensationKey |-> NoKey, customerId |-> Customer,
   idempotencyKey |-> r.key, orderId |-> r.orderId, sagaLogId |-> r.sagaLogId,
   status |-> "SHIPPED"]

ShippingDeliverStep(r, d) ==
  CASE r.pc = "find" ->
         LET existingShipping == ShippingFindByKey(d, r.key)
         IN  IF existingShipping # {}
               THEN {Finish(r, Reply(TRUE, "Shipping already created", "null",
                                     0, r.sagaLogId, {s}), d) : s \in existingShipping}
               ELSE {Goto(r, "findSaga", d)}
    [] r.pc = "findSaga" ->
         LET sagaLog == SagaLogFindById(d, r.sagaLogId)
         IN  IF sagaLog = {}
               THEN {Finish(r, Reply(FALSE, "SagaLog not found", "null", 0, 0, {}), d)}
               ELSE {Out([r EXCEPT !.pc = "saveShipping", !.saga = sagaLog], d)}
    [] r.pc = "saveShipping" ->
         LET shipping == NewShipping(FreshId(d.shippings), r)
         IN  AfterSave(ShippingSave(d, shipping), d, r,
                       [r EXCEPT !.pc = "saveSaga1", !.row = {shipping}])
    [] r.pc = "saveSaga1" ->
         LET sagaLog == [One(r.saga) EXCEPT
                           !.steps = StepStatusTs(@, "DELIVER_ORDER", "IN_PROGRESS")]
         IN  AfterSave(SagaLogSave(d, sagaLog), d, r,
                       [r EXCEPT !.pc = "saveSaga2", !.saga = {sagaLog}])
    [] r.pc = "saveSaga2" ->
         LET sagaLog == [One(r.saga) EXCEPT
                           !.steps = StepStatus(@, "DELIVER_ORDER", "COMPLETED"),
                           !.status = "COMPLETED"]
         IN  \* the handler returns the shipping row itself, not an envelope
             AfterSave(SagaLogSave(d, sagaLog), d, r,
                       [r EXCEPT !.pc = "done", !.saga = {sagaLog},
                                 !.resp = RawReply(One(r.row))])

ShippingCancelStep(r, d) ==
  CASE r.pc = "find" ->
         LET cancelled == ShippingFindByCompensation(d, r.key, r.orderId)
         IN  IF cancelled # {}
               THEN {Finish(r, Reply(TRUE, "Shipping already cancelled", "null",
                                     0, 0, {}), d)}
               ELSE {Goto(r, "findShipping", d)}
    [] r.pc = "findShipping" ->
         LET found == ShippingFindBySaga(d, r.sagaLogId)
         IN  IF found = {}
               THEN {Finish(r, Reply(FALSE, "Shipping not found", "null", 0, 0, {}), d)}
               ELSE {Out([r EXCEPT !.pc = "save",
                                   !.row = {[s EXCEPT !.compensationKey = r.key,
                                                      !.status = "CANCELLED"]}], d)
                     : s \in found}
    [] r.pc = "save" ->
         \* shippingRepository.save() is called without the record: the
         \* INSERT has no columns, the SqlError is a defect, nothing is written
         {Finish(r, Died, d)}

(***************************************************************************)
(* One step of a handler, and a handler run to its end.                    *)
(***************************************************************************)
HandlerStep(r, d) ==
  CASE r.op = "OrderStart" -> OrderStartStep(r, d)
    [] r.op = "OrderCompensate" -> OrderCompensateStep(r, d)
    [] r.op = "PaymentProcess" -> PaymentProcessStep(r, d)
    [] r.op = "PaymentRefund" -> PaymentRefundStep(r, d)
    [] r.op = "InventoryUpdate" -> InventoryUpdateStep(r, d)
    [] r.op = "InventoryCompensate" -> InventoryCompensateStep(r, d)
    [] r.op = "InventoryInitialize" -> InventoryInitializeStep(r, d)
    [] r.op = "ShippingDeliver" -> ShippingDeliverStep(r, d)
    [] r.op = "ShippingCancel" -> ShippingCancelStep(r, d)

RECURSIVE RunToEnd(_, _)
RunToEnd(r, d) ==
  IF r.pc = "done"
    THEN {Out(r, d)}
    ELSE UNION {RunToEnd(o.req, o.db) : o \in HandlerStep(r, d)}

(***************************************************************************)
(* Initial state: empty tables, no request in progress, publisher idle.    *)
(***************************************************************************)
EmptyDb ==
  [sagaLogs |-> {}, orders |-> {}, payments |-> {}, inventories |-> {},
   shippings |-> {}, outbox |-> {}]

\* batch: the events read by the running publishPendingEvents and not yet
\* sent; done: the events whose POST has been answered and whose row is not
\* yet saved; sent: how many POSTs each event has had so far (counted up to
\* MAX_RETRIES + 1); refused: the events a target has answered with an
\* envelope of success = false; crashes: the restarts of the publisher so
\* far; stopped: the fiber of the polling loop has ended.
IdlePublisher ==
  [batch |-> {}, done |-> {}, sent |-> {}, refused |-> {}, crashes |-> 0,
   stopped |-> FALSE]

NoCall ==
  [calls |-> 0, op |-> "none", key |-> NoKey, resp |-> NoResp,
   sameKey |-> FALSE, sameReq |-> FALSE, noSaga |-> FALSE, changed |-> FALSE]

Init ==
  /\ db = EmptyDb
  /\ reqs = [i \in 1..MaxReqs |-> Idle]
  /\ pub = IdlePublisher
  /\ net = "up"
  /\ probe = {}
  /\ last = NoCall

(***************************************************************************)
(* The key the publisher sends with an event: `${aggregateId}-${eventType}`*)
(***************************************************************************)
PublisherKey(aggregateId, eventType) == <<aggregateId, eventType>>

\* The sagas a participant request can name: those whose order exists.
StartedSagas == {s \in db.sagaLogs : s.orderId # 0}

\* The idempotency keys of the requests clients send for a saga: UUIDs.
RequestKeys == {ClientKey(ClientKeys[n]) : n \in 1..Len(ClientKeys)}

(***************************************************************************)
(* Requests handled one at a time: the handler runs to its end before the  *)
(* next request arrives.  probe remembers one request that was answered;   *)
(* last describes the request handled last when it repeats the endpoint    *)
(* and key of the remembered one.                                          *)
(***************************************************************************)
Request(r) == [op |-> r.op, key |-> r.key, sagaLogId |-> r.sagaLogId,
               orderId |-> r.orderId, productId |-> r.productId,
               quantity |-> r.quantity]

\* The handler answered, whatever the answer.
Answered(resp) == resp.status = "ok"

\* The handler answered success = true or returned the row it has written.
Applied(resp) == resp.status = "ok" /\ (resp.success \/ resp.raw # {})

\* A sagaLogId and orderId that no saga log and no order has.
UnknownSaga == [id |-> 99, orderId |-> 99, productId |-> "p1", quantity |-> 2]

\* The sagas a forward request can name.
NamedSagas == StartedSagas \cup {UnknownSaga}

\* The keys of the requests that name s; one key is enough for the requests
\* that name no saga.
KeysNaming(s) == IF s = UnknownSaga THEN {ClientKey(ClientKeys[1])} ELSE RequestKeys

\* A forward request with a key its participant has not seen that names a
\* sagaLogId without a saga log.
NamesNoSaga(r) ==
  /\ SagaLogFindById(db, r.sagaLogId) = {}
  /\ \/ r.op = "PaymentProcess" /\ PaymentFindByKey(db, r.key) = {}
     \/ r.op = "InventoryUpdate" /\ InventoryFindByLastKey(db, r.key) = {}
     \/ r.op = "ShippingDeliver" /\ ShippingFindByKey(db, r.key) = {}

Call(r) ==
  /\ last.calls < MaxCalls
  /\ \E o \in RunToEnd(r, db) :
       /\ db' = o.db
       /\ IF (\E q \in probe : q.req.op = r.op /\ q.req.key = r.key) \/ NamesNoSaga(r)
            THEN last' = [calls |-> last.calls + 1, op |-> r.op, key |-> r.key,
                          resp |-> o.req.resp,
                          sameKey |-> \E q \in probe : q.req.op = r.op /\ q.req.key = r.key,
                          sameReq |-> \E q \in probe : q.req = Request(r),
                          noSaga |-> NamesNoSaga(r),
                          changed |-> o.db # db]
            ELSE last' = [NoCall EXCEPT !.calls = last.calls + 1]
       /\ \/ probe' = probe
          \/ /\ probe = {}
             /\ Answered(o.req.resp)
             /\ probe' = {[req |-> Request(r), resp |-> o.req.resp]}
  /\ UNCHANGED <<reqs, pub, net>>

\* Client keys are interchangeable, so a client takes the first unused one
\* or repeats a used one.
StartKeys ==
  {ClientKeys[i] : i \in 1..Max0(1, MinOf(Len(ClientKeys), Cardinality(db.sagaLogs) + 1))}

OrderStart ==
  /\ last.calls < MaxCalls
  /\ \E k \in StartKeys, p \in Products, q \in Quantities :
       Call(NewReq("OrderStart", ClientKey(k), 0, 0, p, q, FALSE))

OrderCompensate ==
  \E s \in StartedSagas :
    Call(NewReq("OrderCompensate", NoKey, 0, s.orderId, "null", 0, FALSE))

PaymentProcess ==
  \E s \in NamedSagas : \E k \in KeysNaming(s), f \in BOOLEAN :
    Call(NewReq("PaymentProcess", k, s.id, s.orderId, "null", 0, f))

PaymentRefund ==
  \E s \in StartedSagas : \E k \in RequestKeys :
    Call(NewReq("PaymentRefund", k, s.id, s.orderId, "null", 0, FALSE))

InventoryUpdate ==
  \E s \in NamedSagas : \E k \in KeysNaming(s) :
    Call(NewReq("InventoryUpdate", k, s.id, s.orderId, s.productId, s.quantity, FALSE))

InventoryCompensate ==
  \E s \in StartedSagas : \E k \in RequestKeys :
    Call(NewReq("InventoryCompensate", k, s.id, s.orderId, s.productId, s.quantity, FALSE))

InventoryInitialize ==
  /\ last.calls < MaxCalls
  /\ \E p \in Products, q \in Quantities :
       Call(NewReq("InventoryInitialize", NoKey, 0, 0, p, q, FALSE))

ShippingDeliver ==
  \E s \in NamedSagas : \E k \in KeysNaming(s) :
    Call(NewReq("ShippingDeliver", k, s.id, s.orderId, "null", 0, FALSE))

ShippingCancel ==
  \E s \in StartedSagas : \E k \in RequestKeys :
    Call(NewReq("ShippingCancel", k, s.id, s.orderId, "null", 0, FALSE))

Next ==
  \/ OrderStart
  \/ OrderCompensate
  \/ PaymentProcess
  \/ PaymentRefund
  \/ InventoryUpdate
  \/ InventoryCompensate
  \/ InventoryInitialize
  \/ ShippingDeliver
  \/ ShippingCancel

Spec == Init /\ [][Next]_vars

(***************************************************************************)
(* Concurrent requests (SpecConc).  Up to MaxReqs requests are in progress *)
(* at once; each awaited repository call of a handler is one step, and the *)
(* steps of different requests interleave.  No handler opens a             *)
(* transaction, so every save is visible as soon as it returns.  A crash   *)
(* of the serving process ends a request between two of its steps; what it *)
(* has saved stays.                                                        *)
(***************************************************************************)
Crashed == [NoResp EXCEPT !.status = "crashed"]

Running(i) == reqs[i].op # "none" /\ reqs[i].pc # "done"

Quiescent == \A i \in 1..MaxReqs : ~Running(i)

Arrive(i, r) ==
  /\ reqs[i].op = "none"
  /\ reqs' = [reqs EXCEPT ![i] = r]
  /\ UNCHANGED <<db, pub, net, probe, last>>

StartArrive ==
  \E i \in 1..MaxReqs : \E n \in 1..Len(ClientKeys), p \in Products, q \in Quantities :
    Arrive(i, NewReq("OrderStart", ClientKey(ClientKeys[n]), 0, 0, p, q, FALSE))

\* The sagas a client can name in a request: those whose sagaLogId and
\* orderId an answered Order.start has returned.
KnownSagas ==
  {s \in StartedSagas :
     \E j \in 1..MaxReqs : /\ reqs[j].op = "OrderStart"
                           /\ reqs[j].resp.status = "ok"
                           /\ reqs[j].resp.sagaLogId = s.id}

ProcessArrive ==
  \E i \in 1..MaxReqs : \E s \in KnownSagas :
    \E k \in RequestKeys, f \in BOOLEAN :
      Arrive(i, NewReq("PaymentProcess", k, s.id, s.orderId, "null", 0, f))

UpdateArrive ==
  \E i \in 1..MaxReqs : \E s \in KnownSagas :
    \E k \in RequestKeys :
      Arrive(i, NewReq("InventoryUpdate", k, s.id, s.orderId, s.productId,
                       s.quantity, FALSE))

DeliverArrive ==
  \E i \in 1..MaxReqs : \E s \in KnownSagas :
    \E k \in RequestKeys :
      Arrive(i, NewReq("ShippingDeliver", k, s.id, s.orderId, "null", 0, FALSE))

Step ==
  \E i \in 1..MaxReqs :
    /\ Running(i)
    /\ \E o \in HandlerStep(reqs[i], db) :
         /\ reqs' = [reqs EXCEPT ![i] = o.req]
         /\ db' = o.db
    /\ UNCHANGED <<pub, net, probe, last>>

Crash ==
  \E i \in 1..MaxReqs :
    /\ Running(i)
    /\ Cardinality({j \in 1..MaxReqs : reqs[j].resp.status = "crashed"}) < MaxCrashes
    /\ reqs' = [reqs EXCEPT ![i] = [@ EXCEPT !.pc = "done", !.resp = Crashed]]
    /\ UNCHANGED <<db, pub, net, probe, last>>

NextConc ==
  \/ StartArrive
  \/ ProcessArrive
  \/ UpdateArrive
  \/ DeliverArrive
  \/ Step
  \/ Crash

SpecConc == Init /\ [][NextConc]_vars

(***************************************************************************)
(* The outbox publisher.                                                   *)
(***************************************************************************)
\* The handler behind POST serviceUrls[service] + "/api/v1" + endpoint:
\* the routes are the group prefix followed by the endpoint path.
Route(service, endpoint) ==
  CASE service = "order" /\ endpoint = "/order/start" -> "OrderStart"
    [] service = "order" /\ endpoint = "/order/compensate" -> "OrderCompensate"
    [] service = "payment" /\ endpoint = "/payment/process" -> "PaymentProcess"
    [] service = "payment" /\ endpoint = "/payment/refund" -> "PaymentRefund"
    [] service = "inventory" /\ endpoint = "/inventory/update" -> "InventoryUpdate"
    [] service = "inventory" /\ endpoint = "/inventory/compensate" -> "InventoryCompensate"
    [] service = "inventory" /\ endpoint = "/inventory/initialize" -> "InventoryInitialize"
    [] service = "shipping" /\ endpoint = "/shipping/deliver" -> "ShippingDeliver"
    [] service = "shipping" /\ endpoint = "/shipping/cancel" -> "ShippingCancel"
    [] OTHER -> "none"

\* Schema.UUID: a client key is a UUID, the publisher's
\* `${aggregateId}-${eventType}` is not.
IsUUID(key) == key[1] = 0 /\ key[2] # "null"

\* setHeaders(Schema.Struct({"idempotency-key": IdempotencyKey})); the
\* endpoints compensate of order and initialize of inventory declare no header.
HeaderAccepted(op, key) ==
  op \in {"OrderCompensate", "InventoryInitialize"} \/ IsUUID(key)

\* What httpClient.execute and res.json give the publisher for one POST:
\* ok is FALSE when the request fails or times out or the body is not JSON,
\* status is the HTTP status of the response (0 without one), success the
\* flag of the envelope in the body (FALSE when the body is none).
Answer(ok, status, success, d) ==
  [ok |-> ok, status |-> status, success |-> success, db |-> d]

\* The POST of one event to the services of this repository: 404 for a path
\* without a route, 400 for a rejected header, otherwise the handler runs
\* and answers 200 with what it returns, or 500 when it dies.
HttpPost(e, d, up) ==
  LET op == Route(e.targetService, e.targetEndpoint)
      key == PublisherKey(e.aggregateId, e.eventType)
  IN  IF ~up
        THEN {Answer(FALSE, 0, FALSE, d)}
        ELSE IF op = "none"
          THEN {Answer(TRUE, 404, FALSE, d)}
          ELSE IF ~HeaderAccepted(op, key)
            THEN {Answer(TRUE, 400, FALSE, d)}
            ELSE {IF o.req.resp.status = "ok"
                    THEN Answer(TRUE, 200, o.req.resp.success, o.db)
                    ELSE Answer(TRUE, 500, FALSE, o.db) :
                    o \in UNION {RunToEnd(NewReq(op, key, e.payload.sagaLogId,
                                                 e.payload.orderId, e.payload.productId,
                                                 e.payload.quantity, f), d)
                                 : f \in BOOLEAN}}

\* A publisher that counts an answer as a delivery only when its envelope
\* says success = true.
DeliveredOnlySuccess(x) == x.ok /\ x.success

\* publishSingleEvent goes on to the success save whenever the POST gave a
\* response whose body parsed: it looks neither at the status nor at the
\* body.
Delivered(x) == x.ok

\* The row publishSingleEvent saves for event after its POST.
PublishResult(event, ok) ==
  IF ok
    THEN [event EXCEPT !.isPublished = TRUE, !.publishedAt = TRUE]
    ELSE LET newEvent == [event EXCEPT !.publishAttempts = @ + 1,
                                       !.lastError = "error"]
         IN  IF newEvent.publishAttempts >= MAX_RETRIES
               THEN [newEvent EXCEPT !.isPublished = FALSE]
               ELSE event

PublisherIdle == pub.batch = {} /\ pub.done = {}

\* publishPendingEvents: read a batch of unpublished events.
Poll ==
  /\ PublisherIdle
  /\ ~pub.stopped
  /\ \E events \in OutboxFindUnpublished(db, BATCH_SIZE) :
       /\ events # {}
       /\ pub' = [pub EXCEPT !.batch = events]
  /\ UNCHANGED <<db, reqs, net, probe, last>>

\* The number of POSTs made for the event id, as counted in sent.
Dispatches(sent, id) == MaxOf({x.n : x \in {y \in sent : y.id = id}})

CountDispatch(sent, id) ==
  {y \in sent : y.id # id}
    \cup {[id |-> id, n |-> MinOf(Dispatches(sent, id) + 1, MAX_RETRIES + 1)]}

\* A forEach that starts every event of the batch at once.
MayDispatchAlways(done) == TRUE

\* Effect.forEach(events, publishSingleEvent, {concurrency: 5}): the next
\* event starts when fewer than 5 are being published.
MayDispatch(done) == Cardinality(done) < Concurrency

\* publishSingleEvent of e up to the answer of the POST, which is one of
\* answers.
Dispatch(e, answers) ==
  /\ MayDispatch(pub.done)
  /\ \E o \in answers :
       /\ db' = o.db
       /\ pub' = [pub EXCEPT
                    !.batch = @ \ {e},
                    !.done = @ \cup {[event |-> e, ok |-> o.ok, status |-> o.status,
                                      success |-> o.success]},
                    !.sent = CountDispatch(@, e.id),
                    !.refused = IF o.ok /\ o.status = 200 /\ ~o.success
                                  THEN @ \cup {e.id} ELSE @ \ {e.id}]
  /\ UNCHANGED <<reqs, net, probe, last>>

Send == \E e \in pub.batch : Dispatch(e, HttpPost(e, db, net = "up"))

\* publishSingleEvent from the answer on: the save of the publish metadata.
Save ==
  \E x \in pub.done :
    /\ \E d2 \in OutboxSave(db, PublishResult(x.event, Delivered(x))) : db' = d2
    /\ pub' = [pub EXCEPT !.done = @ \ {x}]
    /\ UNCHANGED <<reqs, net, probe, last>>

\* The publisher process crashes and restarts: the batch it held is gone.
PublisherCrash ==
  /\ ~PublisherIdle
  /\ pub.crashes < MaxCrashes
  /\ pub' = [pub EXCEPT !.batch = {}, !.done = {}, !.crashes = @ + 1,
                        !.stopped = FALSE]
  /\ UNCHANGED <<db, reqs, net, probe, last>>

(***************************************************************************)
(* The saga driven by the publisher (LiveSpec).  Clients start orders and  *)
(* may call Payment.process and Inventory.update themselves; the targets   *)
(* are reachable (net = "up") or unreachable for good.  The polling loop   *)
(* repeats forever on a fixed schedule, so each publisher step that stays  *)
(* possible is taken eventually; nothing obliges a client to call.         *)
(***************************************************************************)
InitLive ==
  /\ db = EmptyDb
  /\ reqs = [i \in 1..MaxReqs |-> Idle]
  /\ pub = IdlePublisher
  /\ net \in {"up", "down"}
  /\ probe = {}
  /\ last = NoCall

ClientCall(r) ==
  /\ last.calls < MaxLiveCalls
  /\ \E o \in RunToEnd(r, db) : db' = o.db
  /\ last' = [NoCall EXCEPT !.calls = last.calls + 1]
  /\ UNCHANGED <<reqs, pub, net, probe>>

ClientStart ==
  /\ last.calls < MaxLiveCalls
  /\ \E k \in StartKeys, p \in Products, q \in Quantities :
       ClientCall(NewReq("OrderStart", ClientKey(k), 0, 0, p, q, FALSE))

ClientProcess ==
  \E s \in StartedSagas : \E f \in BOOLEAN :
    ClientCall(NewReq("PaymentProcess", ClientKey(ClientKeys[1]), s.id, s.orderId,
                      "null", 0, f))

ClientUpdate ==
  \E s \in StartedSagas :
    ClientCall(NewReq("InventoryUpdate", ClientKey(ClientKeys[1]), s.id, s.orderId,
                      s.productId, s.quantity, FALSE))

NextLive ==
  \/ ClientStart
  \/ ClientProcess
  \/ ClientUpdate
  \/ Poll
  \/ Send
  \/ Save
  \/ PublisherCrash

LiveSpec ==
  /\ InitLive
  /\ [][NextLive]_vars
  /\ WF_vars(Poll)
  /\ WF_vars(Send)
  /\ WF_vars(Save)

(***************************************************************************)
(* The publisher alone (PubSpec).  The outbox holds a backlog of events as *)
(* Order.start appends them; the services behind serviceUrls are the       *)
(* environment: while reachable they answer each POST with status 200 and  *)
(* an envelope, of success = false for the event of a saga the target does *)
(* not have.                                                               *)
(***************************************************************************)
\* The outbox rows of the orders 1..n, none of them sent yet.
Backlog(n) ==
  UNION {OutboxMake(i, i, "OrderCreated",
                    Payload(i, i, Customer, Price, "null", 0),
                    "payment", "/payments/process-payment") : i \in 1..n}

\* The sagas whose log the target does not find.
MissingAtTarget == {2}

\* The answer of a target to the POST of e: an envelope, 'SagaLog not found'
\* with success = false for a saga it does not have, or nothing when the
\* target is unreachable.  The tables of the publisher's service are not the
\* target's.
TargetAnswers(e, d, up) ==
  IF up
    THEN {Answer(TRUE, 200, e.payload.sagaLogId \notin MissingAtTarget, d)}
    ELSE {Answer(FALSE, 0, FALSE, d)}

InitPub ==
  /\ \E n \in 1..MaxPubEvents : db = [EmptyDb EXCEPT !.outbox = Backlog(n)]
  /\ reqs = [i \in 1..MaxReqs |-> Idle]
  /\ pub = IdlePublisher
  /\ net \in {"up", "down"}
  /\ probe = {}
  /\ last = NoCall

\* forEach starts the events in the order of the array findUnpublished
\* returned, here the order of their ids.
NextOf(batch) == {e \in batch : \A b \in batch : e.id <= b.id}

SendToTarget ==
  \E e \in NextOf(pub.batch) : Dispatch(e, TargetAnswers(e, db, net = "up"))

NextPub ==
  \/ Poll
  \/ SendToTarget
  \/ Save
  \/ PublisherCrash

PubSpec == InitPub /\ [][NextPub]_vars

(***************************************************************************)
(* The inventory round trip (InvSpec).  The stock of the product is any    *)
(* row the table admits, the saga of an order for q units exists, and the  *)
(* order's Inventory.update is followed by its Inventory.compensate.       *)
(***************************************************************************)
\* The tables after the Order.start of an order for q units, with the stock
\* of its product at quantity a of which b are reserved.
StockedDb(a, b, q) ==
  {[o.db EXCEPT !.inventories =
      {[NewInventory(1, One(Products), a) EXCEPT !.reservedQuantity = b]}] :
     o \in RunToEnd(NewReq("OrderStart", ClientKey(ClientKeys[1]), 0, 0,
                           One(Products), q, FALSE), EmptyDb)}

InitInv ==
  /\ \E a \in 0..MaxStock : \E b \in 0..a : \E q \in 1..MaxStock :
       db \in StockedDb(a, b, q)
  /\ reqs = [i \in 1..MaxReqs |-> Idle]
  /\ pub = IdlePublisher
  /\ net = "up"
  /\ probe = {}
  /\ last = NoCall

\* The handler reserved the stock, or restored it: it did not answer from
\* a key it had seen.
Performed(resp) ==
  /\ Applied(resp)
  /\ resp.message \in {"Inventory update successfully",
                        "Inventory compensated successfully"}

\* Inventory.update of the saga s under the key ku, accepted, followed by
\* Inventory.compensate of s under the key kc.
RoundTrip ==
  /\ last.calls < MaxCalls
  /\ \E s \in StartedSagas : \E ku \in RequestKeys, kc \in RequestKeys :
       \E u \in RunToEnd(NewReq("InventoryUpdate", ku, s.id, s.orderId,
                                 s.productId, s.quantity, FALSE), db) :
         /\ Performed(u.req.resp)
         /\ \E c \in RunToEnd(NewReq("InventoryCompensate", kc, s.id, s.orderId,
                                       s.productId, s.quantity, FALSE), u.db) :
              /\ db' = c.db
              /\ last' = [NoCall EXCEPT !.calls = last.calls + 1,
                                        !.op = "InventoryCompensate",
                                        !.key = kc,
                                        !.resp = c.req.resp,
                                        !.changed = c.db # db]
  /\ UNCHANGED <<reqs, pub, net, probe>>

NextInv == RoundTrip

InvSpec == InitInv /\ [][NextInv]_vars

(***************************************************************************)
(* Reservations of two orders (RaceSpec).  Two orders for the product have *)
(* been started, the product has its default stock or no row yet, and the  *)
(* Inventory.update requests of the two orders, each under the key of its  *)
(* order, arrive and interleave step by step; a request may be sent again. *)
(***************************************************************************)
\* The tables after Order.start of two orders for q1 and q2 units.
TwoOrdersDb(q1, q2) ==
  UNION {{o2.db : o2 \in RunToEnd(NewReq("OrderStart", ClientKey(ClientKeys[2]), 0, 0,
                                         One(Products), q2, FALSE), o1.db)} :
           o1 \in RunToEnd(NewReq("OrderStart", ClientKey(ClientKeys[1]), 0, 0,
                                  One(Products), q1, FALSE), EmptyDb)}

InitRace ==
  /\ \E q1 \in Quantities, q2 \in Quantities : \E d \in TwoOrdersDb(q1, q2) :
       \/ db = d
       \/ db = [d EXCEPT !.inventories = {NewInventory(1, One(Products), DefaultStock)}]
  /\ reqs = [i \in 1..MaxReqs |-> Idle]
  /\ pub = IdlePublisher
  /\ net = "up"
  /\ probe = {}
  /\ last = NoCall

\* The key of the Inventory.update of the order of the saga s.
UpdateKey(s) == ClientKey(ClientKeys[s.id])

RaceArrive ==
  \E i \in 1..MaxReqs : \E s \in StartedSagas :
    Arrive(i, NewReq("InventoryUpdate", UpdateKey(s), s.id, s.orderId, s.productId,
                     s.quantity, FALSE))

NextRace ==
  \/ RaceArrive
  \/ Step

RaceSpec == InitRace /\ [][NextRace]_vars

(***************************************************************************)
(* The publisher with a failing table (FailSpec).  As PubSpec, within one  *)
(* run of the process; a save of the publish metadata may fail with a      *)
(* SqlError.                                                               *)
(***************************************************************************)
\* repository.save fails in publishSingleEvent: the SqlError is turned into
\* a defect, which neither catchAll handles; forEach interrupts the other
\* events of the batch and the defect ends pollOnce, the repeat and the
\* forked fiber.
SaveFails ==
  /\ pub.done # {}
  /\ pub' = [pub EXCEPT !.batch = {}, !.done = {}, !.stopped = TRUE]
  /\ UNCHANGED <<db, reqs, net, probe, last>>

NextFail ==
  \/ Poll
  \/ SendToTarget
  \/ Save
  \/ SaveFails

FailSpec == InitPub /\ [][NextFail]_vars

(***************************************************************************)
(* Properties of requests handled one at a time (Spec).                    *)
(***************************************************************************)
ForwardOps == {"PaymentProcess", "InventoryUpdate", "ShippingDeliver"}

CompensationOps == {"PaymentRefund", "InventoryCompensate", "ShippingCancel"}

AlreadyCompensated ==
  {"Payment already refunded", "Inventory already compensated", "Shipping already cancelled"}

\* The remembered request was handled and answered success = true.
ProbeApplied == \E q \in probe : Applied(q.resp)

\* The remembered request is an Order.start that created its saga.
ProbeStarted ==
  \E q \in probe : /\ q.req.op = "OrderStart"
                   /\ q.resp.status = "ok"
                   /\ q.resp.message = StartedMessage

\* C3: an Order.start that repeats the idempotency key of a completed
\* Order.start answers with the original orderId and sagaLogId and changes
\* no table.
C3_DuplicateStart ==
  (last.op = "OrderStart" /\ last.sameKey /\ ProbeStarted) =>
    /\ ~last.changed
    /\ last.resp.status = "ok"
    /\ last.resp.success
    /\ \A q \in probe : /\ last.resp.orderId = q.resp.orderId
                        /\ last.resp.sagaLogId = q.resp.sagaLogId

C3_Witness ==
  /\ last.op = "OrderStart" /\ last.sameKey /\ ProbeStarted
  /\ last.resp.message = "Saga already initiated"
  /\ last.resp.orderId # 0
  /\ Cardinality(db.sagaLogs) = 2

\* C4: replaying an applied forward request (same endpoint, idempotency key
\* and payload) after any other requests has no side effect at all.
C4_ForwardReplayNoEffect ==
  (last.op \in ForwardOps /\ last.sameReq /\ ProbeApplied) => ~last.changed

\* C5: replaying an applied compensation request after any other requests
\* answers 'already compensated' and changes no state.
C5_CompensationReplayNoEffect ==
  (last.op \in CompensationOps /\ last.sameReq /\ ProbeApplied) =>
    /\ ~last.changed
    /\ last.resp.message \in AlreadyCompensated

AllStepsCompleted(s) == \A i \in 1..Len(s.steps) : s.steps[i].status = "COMPLETED"

\* C10: a saga log has status COMPLETED exactly when its four steps have
\* status COMPLETED.
C10_CompletedIffAllSteps ==
  \A s \in db.sagaLogs : (s.status = "COMPLETED") <=> AllStepsCompleted(s)

(***************************************************************************)
(* Properties of concurrent requests (SpecConc).                           *)
(***************************************************************************)
HasEvent(orderId, eventType) ==
  \E e \in db.outbox : e.aggregateId = orderId /\ e.eventType = eventType

StepIs(s, n, st) == \E i \in 1..Len(s.steps) : s.steps[i].name = n /\ s.steps[i].status = st

\* C1: whenever no handler is running (so also after a crash), a persisted
\* state change of a forward handler (the Order row, the step PROCESS_PAYMENT
\* or UPDATE_INVENTORY marked COMPLETED) and the outbox event it produces
\* are both present or both absent.
C1_OutboxAtomicity ==
  Quiescent =>
    /\ \A o \in db.orders : HasEvent(o.id, "OrderCreated")
    /\ \A e \in db.outbox : e.eventType = "OrderCreated" => OrderFindById(db, e.aggregateId) # {}
    /\ \A s \in db.sagaLogs :
         /\ StepIs(s, "CREATE_ORDER", "COMPLETED") <=> HasEvent(s.orderId, "OrderCreated")
         /\ StepIs(s, "PROCESS_PAYMENT", "COMPLETED") <=> HasEvent(s.orderId, "PaymentProcessed")
         /\ StepIs(s, "UPDATE_INVENTORY", "COMPLETED") <=> HasEvent(s.orderId, "InventoryUpdated")

StartsOf(key) ==
  {i \in 1..MaxReqs : reqs[i].op = "OrderStart" /\ reqs[i].key = key /\ reqs[i].pc = "done"}

\* C2: when all of N >= 2 interleaved Order.start requests with one
\* idempotency key have been answered, exactly one SagaLog, one Order and one
\* OrderCreated event exist for the key, and all responses carry the same
\* sagaLogId and the same orderId.
C2_ConcurrentStartOnce ==
  \A n \in 1..Len(ClientKeys) :
    LET key == ClientKey(ClientKeys[n])
        S == StartsOf(key)
    IN  (Cardinality(S) >= 2 /\ \A i \in S : reqs[i].resp.status # "crashed") =>
          /\ Cardinality(SagaLogFindByKey(db, key)) = 1
          /\ \A s \in SagaLogFindByKey(db, key) :
               /\ Cardinality(OrderFindById(db, s.orderId)) = 1
               /\ Cardinality({e \in db.outbox : e.aggregateId = s.orderId
                                                  /\ e.eventType = "OrderCreated"}) = 1
               /\ \A i \in S : /\ reqs[i].resp.status = "ok"
                                /\ reqs[i].resp.sagaLogId = s.id
                                /\ reqs[i].resp.orderId = s.orderId

(***************************************************************************)
(* Properties of the saga driven by the publisher (LiveSpec).              *)
(***************************************************************************)
EventIds == 1..MaxLiveCalls

SagaIds == 1..MaxLiveCalls

Appended(i) == \E e \in db.outbox : e.id = i

Published(i) == \E e \in db.outbox : e.id = i /\ e.isPublished

TerminalFailed(i) ==
  \E e \in db.outbox : e.id = i /\ ~e.isPublished /\ e.publishAttempts >= MAX_RETRIES

\* C6: under weak fairness of the publisher loop every appended outbox
\* event is eventually marked published or reaches the terminal-failed state
\* (publishAttempts = MAX_RETRIES), also across crashes of the publisher.
C6_AtLeastOnceDelivery ==
  \A i \in EventIds : Appended(i) ~> (Published(i) \/ TerminalFailed(i))

Started(i) ==
  \E s \in db.sagaLogs : s.id = i /\ s.orderId # 0 /\ HasEvent(s.orderId, "OrderCreated")

Declined(i) == \E s \in db.sagaLogs : s.id = i /\ StepIs(s, "PROCESS_PAYMENT", "FAILED")

Insufficient(i) == \E s \in db.sagaLogs : s.id = i /\ StepIs(s, "UPDATE_INVENTORY", "FAILED")

OrderHasStatus(s, st) == \E o \in OrderFindById(db, s.orderId) : o.status = st

Fulfilled(i) ==
  \E s \in db.sagaLogs :
    /\ s.id = i
    /\ s.status = "COMPLETED"
    /\ AllStepsCompleted(s)
    /\ OrderHasStatus(s, "CONFIRMED")
    /\ \E v \in InventoryFindByProduct(db, s.productId) : v.reservedQuantity >= s.quantity
    /\ \E x \in ShippingFindBySaga(db, s.id) : x.status = "SHIPPED"

\* C7: with every target reachable, a started saga whose payment is never
\* declined and whose stock never proves insufficient is eventually
\* fulfilled: SagaLog COMPLETED with its four steps COMPLETED, Order
\* CONFIRMED, the stock reserved and a Shipping row SHIPPED.
C7_HappyPath ==
  \A i \in SagaIds :
    (net = "up" /\ Started(i)) ~> (Fulfilled(i) \/ Declined(i) \/ Insufficient(i))

Compensated(i) ==
  \E s \in db.sagaLogs :
    /\ s.id = i
    /\ s.status = "COMPENSATED"
    /\ OrderHasStatus(s, "COMPENSATED")
    /\ HasEvent(s.orderId, "PaymentFailed")

\* C8: with every target reachable, once Payment.process has declined the
\* payment of a saga, a PaymentFailed event exists for the order and
\* eventually SagaLog.status and Order.status are COMPENSATED.
C8_DeclineCompensates ==
  \A i \in SagaIds : (net = "up" /\ Declined(i)) ~> Compensated(i)

Paid(i) == \E s \in db.sagaLogs : s.id = i /\ PaymentFindByOrderSaga(db, s.orderId, s.id) # {}

Refunded(i) ==
  \E s \in db.sagaLogs :
    /\ s.id = i
    /\ \E p \in PaymentFindByOrderSaga(db, s.orderId, s.id) : p.status = "REFUNDED"
    /\ OrderHasStatus(s, "COMPENSATED")

\* C9: with every target reachable, once Inventory.update has marked
\* UPDATE_INVENTORY FAILED for want of stock, the saga's Payment row is
\* eventually REFUNDED and its Order row COMPENSATED.
C9_InsufficientCompensates ==
  \A i \in SagaIds : (net = "up" /\ Insufficient(i) /\ Paid(i)) ~> Refunded(i)

(***************************************************************************)
(* Invariants of the saga log, the inventory and the outbox (Spec).        *)
(***************************************************************************)
SomeStepFailed(s) == \E i \in 1..Len(s.steps) : s.steps[i].status = "FAILED"

CompletedStepsCompensated(s) ==
  \A i \in 1..Len(s.steps) :
    s.steps[i].status = "COMPLETED" => s.steps[i].compensationStatus = "COMPLETED"

C12_InventoryInvariant ==
  \A v \in db.inventories : 0 <= v.reservedQuantity /\ v.reservedQuantity <= v.quantity

\* Stock was initialized, reserved by an update and released by a
\* compensation, and a reservation is still held.
C12_Witness ==
  \E v \in db.inventories :
    /\ v.lastIdempotencyKey # NoKey
    /\ v.compensationKey # NoKey
    /\ v.reservedQuantity > 0
    /\ v.quantity > DefaultStock

\* C16: a step has status COMPLETED only if every step before it in the
\* order CREATE_ORDER, PROCESS_PAYMENT, UPDATE_INVENTORY, DELIVER_ORDER has
\* status COMPLETED.
C16_StepsCompleteInOrder ==
  \A s \in db.sagaLogs : \A i \in 1..Len(s.steps) :
    s.steps[i].status = "COMPLETED" =>
      \A j \in 1..(i - 1) : s.steps[j].status = "COMPLETED"

\* C20: no two outbox events have the same aggregateId and eventType.
C20_OneEventPerAggregateAndType ==
  \A e, f \in db.outbox :
    (e.aggregateId = f.aggregateId /\ e.eventType = f.eventType) => e.id = f.id

(***************************************************************************)
(* Properties of the publisher's retries (LiveSpec).                       *)
(***************************************************************************)
\* C13: no outbox event has publishAttempts above MAX_RETRIES, and the
\* publisher makes at most MAX_RETRIES delivery attempts (POSTs) for one
\* event.
C13_AtMostMaxRetriesAttempts ==
  \A e \in db.outbox :
    /\ e.publishAttempts <= MAX_RETRIES
    /\ Dispatches(pub.sent, e.id) <= MAX_RETRIES

Exhausted(i) ==
  \E e \in db.outbox : e.id = i /\ ~e.isPublished /\ e.publishAttempts = MAX_RETRIES

InBatch(i) == \E e \in pub.batch : e.id = i

\* C14: when the target is unreachable for good, an appended event
\* eventually has publishAttempts = MAX_RETRIES with isPublished = false and
\* from then on is never again read into a batch of the publisher.
C14_ExhaustedRetries ==
  \A i \in EventIds :
    (net = "down" /\ Appended(i)) ~> [](Exhausted(i) /\ ~InBatch(i))

(***************************************************************************)
(* The state machine of SagaLog.status (SpecConc).                         *)
(***************************************************************************)
\* The statuses that may follow a status: STARTED -> IN_PROGRESS ->
\* {COMPLETED | COMPENSATING -> COMPENSATED | FAILED}, with COMPLETED and
\* COMPENSATED terminal.
StatusAfter(st) ==
  CASE st = "STARTED" ->
         {"STARTED", "IN_PROGRESS", "COMPLETED", "FAILED", "COMPENSATING", "COMPENSATED"}
    [] st = "IN_PROGRESS" ->
         {"IN_PROGRESS", "COMPLETED", "FAILED", "COMPENSATING", "COMPENSATED"}
    [] st = "FAILED" -> {"FAILED", "COMPENSATING", "COMPENSATED"}
    [] st = "COMPENSATING" -> {"COMPENSATING", "COMPENSATED"}
    [] st = "COMPLETED" -> {"COMPLETED"}
    [] st = "COMPENSATED" -> {"COMPENSATED"}

\* C15: no step of any handler moves the stored status of a saga log
\* backwards, and a status COMPLETED or COMPENSATED never changes again,
\* whatever requests are in progress at the same time.
C15_StatusMonotonic ==
  [][\A s \in db.sagaLogs : \A t \in db'.sagaLogs :
       t.id = s.id => t.status \in StatusAfter(s.status)]_vars

(***************************************************************************)
(* Replayed requests (Spec).                                               *)
(***************************************************************************)
\* C17: a forward or compensation request that repeats an answered request
\* (same endpoint, idempotency key and payload) is answered with the same
\* success flag, data and error as the original; so the replay of a declined
\* Payment.process answers success = false again.
C17_ReplaySameResponse ==
  (last.op \in ForwardOps \cup CompensationOps /\ last.sameReq) =>
    \A q \in probe :
      /\ last.resp.status = "ok"
      /\ last.resp.success = q.resp.success
      /\ last.resp.data = q.resp.data
      /\ last.resp.raw = q.resp.raw
      /\ last.resp.error = q.resp.error

(***************************************************************************)
(* What the publisher writes (LiveSpec).                                   *)
(***************************************************************************)
\* The fields of an outbox row the publisher has to leave alone.
EventIdentity(e) ==
  [id |-> e.id, aggregateId |-> e.aggregateId, eventType |-> e.eventType,
   payload |-> e.payload, targetService |-> e.targetService,
   targetEndpoint |-> e.targetEndpoint, maxRetries |-> e.maxRetries,
   createdAt |-> e.createdAt]

\* A step in which the publisher saves the row of an event it has sent.
PublisherSaves == pub'.done # pub.done /\ pub'.batch = pub.batch

CompensatedAt(req) ==
  CASE req.op = "PaymentProcess" ->
         \E p \in PaymentFindByKey(db, req.key) : p.status = "REFUNDED"
    [] req.op = "ShippingDeliver" ->
         \E x \in ShippingFindByKey(db, req.key) : x.status = "CANCELLED"
    [] req.op = "InventoryUpdate" ->
         \E v \in InventoryFindByProduct(db, req.productId) :
           v.compensationKey # NoKey /\ v.orderId = req.orderId
    [] OTHER -> FALSE

\* C19: an applied forward request that is delivered again (same endpoint,
\* key and payload) after the participant has applied the compensation for
\* its saga changes nothing: the compensated state stays and no outbox event
\* is appended, whatever other deliveries came in between.
C19_ForwardAfterCompensation ==
  (/\ last.op \in ForwardOps
   /\ last.sameReq
   /\ ProbeApplied
   /\ \E q \in probe : CompensatedAt(q.req)) => ~last.changed

(***************************************************************************)
(* Failures of the forward handlers (Spec).                                *)
(***************************************************************************)
\* C24: a forward request (Payment.process, Inventory.update,
\* Shipping.deliver) that names a sagaLogId without a saga log is answered
\* success = false, 'SagaLog not found', and writes nothing.
C24_SagaLogNotFound ==
  (last.op \in ForwardOps /\ last.noSaga) =>
    /\ last.resp.status = "ok"
    /\ ~last.resp.success
    /\ last.resp.message = "SagaLog not found"
    /\ ~last.changed

EventsOf(orderId, eventType) ==
  {e \in db.outbox : e.aggregateId = orderId /\ e.eventType = eventType}

\* C25: for every saga whose payment Payment.process has declined
\* (PROCESS_PAYMENT is FAILED with an error) the outbox holds exactly one
\* PaymentFailed event of the order, addressed to the compensate endpoint of
\* the order service, and no PaymentProcessed event.
C25_DeclineAppendsPaymentFailed ==
  \A s \in db.sagaLogs :
    (\E i \in 1..Len(s.steps) : /\ s.steps[i].name = "PROCESS_PAYMENT"
                                /\ s.steps[i].status = "FAILED") =>
      /\ \E i \in 1..Len(s.steps) : /\ s.steps[i].name = "PROCESS_PAYMENT"
                                   /\ s.steps[i].error # "null"
      /\ Cardinality(EventsOf(s.orderId, "PaymentFailed")) = 1
      /\ \A e \in EventsOf(s.orderId, "PaymentFailed") :
           Route(e.targetService, e.targetEndpoint) = "OrderCompensate"
      /\ EventsOf(s.orderId, "PaymentProcessed") = {}

\* C26: for every saga whose Inventory.update found the stock insufficient
\* (UPDATE_INVENTORY is FAILED) the outbox holds exactly one InventoryFailed
\* event of the order, addressed to the refund endpoint of the payment
\* service.
C26_InsufficientAppendsInventoryFailed ==
  \A s \in db.sagaLogs :
    StepIs(s, "UPDATE_INVENTORY", "FAILED") =>
      /\ Cardinality(EventsOf(s.orderId, "InventoryFailed")) = 1
      /\ \A e \in EventsOf(s.orderId, "InventoryFailed") :
           Route(e.targetService, e.targetEndpoint) = "PaymentRefund"

\* C27: once Order.compensate has succeeded for an order (its status is
\* COMPENSATED), the saga log of the order has status COMPENSATED.
C27_ChainEndsCompensated ==
  \A o \in db.orders :
    o.status = "COMPENSATED" =>
      \A s \in db.sagaLogs : s.orderId = o.id => s.status = "COMPENSATED"

StepCompensation(s, n) ==
  {s.steps[i].compensationStatus : i \in {j \in 1..Len(s.steps) : s.steps[j].name = n}}

\* C28: a Payment row refunded under a key, an Inventory row restored under
\* a key and a Shipping row cancelled under a key each come with the
\* compensationStatus COMPLETED of the step PROCESS_PAYMENT,
\* UPDATE_INVENTORY or DELIVER_ORDER of their saga.
C28_CompensationRecorded ==
  /\ \A p \in db.payments :
       (p.status = "REFUNDED" /\ p.compensationKey # NoKey) =>
         \A s \in SagaLogFindById(db, p.sagaLogId) :
           StepCompensation(s, "PROCESS_PAYMENT") = {"COMPLETED"}
  /\ \A x \in db.shippings :
       (x.status = "CANCELLED" /\ x.compensationKey # NoKey) =>
         \A s \in SagaLogFindById(db, x.sagaLogId) :
           StepCompensation(s, "DELIVER_ORDER") = {"COMPLETED"}
  /\ \A v \in db.inventories :
       v.compensationKey # NoKey =>
         \A s \in db.sagaLogs :
           s.orderId = v.orderId => StepCompensation(s, "UPDATE_INVENTORY") = {"COMPLETED"}

(***************************************************************************)
(* What the publisher saves after a dispatch (LiveSpec).                   *)
(***************************************************************************)
\* The step saves the row of the dispatch x and nothing else of the
\* publisher changes.
SavesDispatch(x) ==
  /\ x \in pub.done
  /\ pub'.done = pub.done \ {x}
  /\ pub'.batch = pub.batch
  /\ pub'.crashes = pub.crashes

\* The stored row of the event with the id i.
StoredEvent(d, i) == {e \in d.outbox : e.id = i}

\* C21: the save that follows a failed dispatch of an event stores its
\* publishAttempts incremented by exactly one and its lastError set, with
\* isPublished still false; so k failed dispatches in a row leave
\* publishAttempts = k.
C21_FailedDispatchCounted ==
  [][\A x \in pub.done :
       (SavesDispatch(x) /\ ~x.ok) =>
         \A e \in StoredEvent(db, x.event.id) :
           \E f \in StoredEvent(db', x.event.id) :
             /\ f.publishAttempts = e.publishAttempts + 1
             /\ f.lastError # "null"
             /\ ~f.isPublished]_vars

\* C22: a row of the outbox becomes isPublished = true, with publishedAt
\* set, only by the save of a dispatch that was answered with a 2xx status
\* and a body that parsed; the save of a dispatch answered otherwise leaves
\* the row unpublished.
C22_PublishedOnly2xx ==
  [][\A e \in db.outbox : \A f \in StoredEvent(db', e.id) :
       (~e.isPublished /\ f.isPublished) =>
         /\ f.publishedAt
         /\ \E x \in pub.done :
              /\ x.event.id = e.id
              /\ SavesDispatch(x)
              /\ x.ok
              /\ x.status \in 200..299]_vars

(***************************************************************************)
(* Forward ordering of the events (LiveSpec).                              *)
(***************************************************************************)
\* The event of the type for the order has been delivered.
DeliveredEvent(orderId, eventType) ==
  \E e \in EventsOf(orderId, eventType) : e.isPublished

\* The saga log of the order has the step as COMPLETED.
StepCompleted(orderId, name) ==
  \E s \in db.sagaLogs : s.orderId = orderId /\ StepIs(s, name, "COMPLETED")

\* C29: a PaymentProcessed event of an order exists only if the order's
\* OrderCreated event was delivered and PROCESS_PAYMENT is stored COMPLETED;
\* an InventoryUpdated event of an order exists only if the order's
\* PaymentProcessed event was delivered and UPDATE_INVENTORY is stored
\* COMPLETED.
C29_ForwardOrdering ==
  \A e \in db.outbox :
    /\ e.eventType = "PaymentProcessed" =>
         /\ DeliveredEvent(e.aggregateId, "OrderCreated")
         /\ StepCompleted(e.aggregateId, "PROCESS_PAYMENT")
    /\ e.eventType = "InventoryUpdated" =>
         /\ DeliveredEvent(e.aggregateId, "PaymentProcessed")
         /\ StepCompleted(e.aggregateId, "UPDATE_INVENTORY")

InFlight == {x.event.id : x \in pub.done}

\* C30: a poll cycle reads its batch only when no event of the previous
\* cycle is waiting, being sent or being saved; at most 5 events are between
\* the start of their dispatch and the end of their save; and no event is in
\* two dispatches at once or both waiting and in a dispatch.
C30_CyclesAndDispatchesBounded ==
  /\ [](/\ Cardinality(pub.done) <= Concurrency
        /\ Cardinality(InFlight) = Cardinality(pub.done)
        /\ \A b \in pub.batch : b.id \notin InFlight)
  /\ [][pub'.batch \ pub.batch # {} => pub.batch = {} /\ pub.done = {}]_vars

\* Five events of a batch of more than five are in flight and the next one
\* waits.
C30_Witness ==
  /\ Cardinality(pub.done) = Concurrency
  /\ pub.batch # {}

(***************************************************************************)
(* What a first Order.start leaves behind (Spec).                          *)
(***************************************************************************)
\* The Order.start requests that are answered in this step as having
\* started their saga, with their answers.
StartsAnswered ==
  {q \in probe' \ probe :
     q.req.op = "OrderStart" /\ q.resp.success /\ q.resp.message = StartedMessage}

\* The saga log has CREATE_ORDER as COMPLETED and its other steps PENDING.
OnlyOrderCreated(s) ==
  \A i \in 1..Len(s.steps) :
    s.steps[i].status = IF s.steps[i].name = "CREATE_ORDER" THEN "COMPLETED" ELSE "PENDING"

PaymentsProcessed == {p \in db'.payments \ db.payments : p.status = "PROCESSED"}

\* C32: the Payment.process that stores a payment as PROCESSED leaves
\* PROCESS_PAYMENT of its saga COMPLETED and appends exactly one outbox
\* event, a PaymentProcessed of its order for the inventory service; and
\* every outbox event has its eventType among the eight event types and its
\* targetService among order, payment, inventory and shipping.
C32_ProcessedAppendsPaymentProcessed ==
  [][/\ \A p \in PaymentsProcessed :
          /\ \E s \in db'.sagaLogs : s.id = p.sagaLogId /\ StepIs(s, "PROCESS_PAYMENT", "COMPLETED")
          /\ \E e \in db'.outbox \ db.outbox :
               /\ db'.outbox \ db.outbox = {e}
               /\ e.aggregateId = p.orderId
               /\ e.eventType = "PaymentProcessed"
               /\ e.targetService = "inventory"
     /\ \A e \in db'.outbox :
          e.eventType \in EventTypes /\ e.targetService \in TargetServices]_vars

KeyUnique(T) == \A x \in T : \A y \in T : x.idempotencyKey = y.idempotencyKey => x = y

\* C34: however the executions of forward requests with the same
\* idempotency key interleave, at most one Payment row and at most one
\* Shipping row exist with that key.
C34_RowsUniquePerKey == KeyUnique(db.payments) /\ KeyUnique(db.shippings)

\* The status of a step that has come to its end.
StepEnded(st) == st \in {"COMPLETED", "FAILED"}

\* C35: no save of a saga log takes a step that is stored as COMPLETED or
\* FAILED back to PENDING or IN_PROGRESS, however the handlers interleave.
C35_NoStepRegression ==
  [][\A s \in db.sagaLogs : \A t \in db'.sagaLogs :
       t.id = s.id =>
         \A i \in 1..Len(s.steps) :
           StepEnded(s.steps[i].status) =>
             t.steps[i].status \notin {"PENDING", "IN_PROGRESS"}]_vars

(***************************************************************************)
(* Reservations of two orders (RaceSpec).                                  *)
(***************************************************************************)
\* The Inventory.update requests that were answered as having reserved.
Reserved ==
  {i \in 1..MaxReqs : /\ reqs[i].op = "InventoryUpdate"
                       /\ reqs[i].pc = "done"
                       /\ Applied(reqs[i].resp)
                       /\ reqs[i].resp.message = "Inventory update successfully"}

RECURSIVE SumQuantity(_)
SumQuantity(I) ==
  IF I = {} THEN 0
  ELSE LET i == CHOOSE j \in I : TRUE IN reqs[i].quantity + SumQuantity(I \ {i})

\* C36: once the Inventory.update requests of the two orders have both
\* reserved and no request is in progress, the stock of the product has
\* reservedQuantity increased and quantity decreased by the sum of the two
\* quantities, and each order has reserved once: a request sent again was
\* answered from its key.
C36_ReservationsNotLost ==
  (Quiescent /\ \E i \in Reserved : \E j \in Reserved : reqs[i].key # reqs[j].key) =>
    /\ \A i \in Reserved : \A j \in Reserved : reqs[i].key = reqs[j].key => i = j
    /\ \A v \in db.inventories :
         /\ v.reservedQuantity = SumQuantity(Reserved)
         /\ v.quantity = DefaultStock - SumQuantity(Reserved)

(***************************************************************************)
(* Order.start after a crash (SpecConc).                                   *)
(***************************************************************************)
\* An Order.start with the key has crashed and none with the key is in
\* progress.
StartCrashed(key) ==
  /\ \E j \in 1..MaxReqs :
       reqs[j].op = "OrderStart" /\ reqs[j].key = key /\ reqs[j].resp = Crashed
  /\ \A j \in 1..MaxReqs :
       (reqs[j].op = "OrderStart" /\ reqs[j].key = key) => ~Running(j)

\* C37: an Order.start that is retried with the key of a start that crashed
\* is answered with an orderId, and when it is answered the order and its
\* OrderCreated event exist.
C37_RetryRecoversStart ==
  [][\A i \in 1..MaxReqs :
       (/\ reqs[i].op = "none"
        /\ reqs'[i].op = "OrderStart"
        /\ StartCrashed(reqs'[i].key)) =>
         \A o \in RunToEnd(reqs'[i], db) :
           /\ Answered(o.req.resp)
           /\ o.req.resp.orderId # 0
           /\ OrderFindById(o.db, o.req.resp.orderId) # {}
           /\ \E e \in o.db.outbox :
                e.aggregateId = o.req.resp.orderId /\ e.eventType = "OrderCreated"]_vars

(***************************************************************************)
(* The requests the publisher builds (Spec).                               *)
(***************************************************************************)
\* The handlers an event can be addressed to: the forward and the
\* compensation handlers of the participants.
EventHandlers == ForwardOps \cup CompensationOps \cup {"OrderCompensate"}

\* C38: every event in the outbox is addressed to a path that its target
\* service routes to a forward or compensation handler, and the
\* idempotency key the publisher sends with it satisfies the header schema
\* of that route.
C38_RoutingConsistent ==
  \A e \in db.outbox :
    /\ Route(e.targetService, e.targetEndpoint) \in EventHandlers
    /\ HeaderAccepted(Route(e.targetService, e.targetEndpoint),
                      PublisherKey(e.aggregateId, e.eventType))

(***************************************************************************)
(* Failures while publishing (FailSpec).                                   *)
(***************************************************************************)
\* C39: whatever fails while an event is published (the POST, its answer
\* or the save of the metadata), every other event of the batch stays in the
\* batch until it is dispatched, and the polling loop goes on.
C39_FailureIsolation ==
  [][/\ \A e \in pub.batch :
          e \in pub'.batch \/ \E x \in pub'.done : x.event.id = e.id
     /\ ~pub'.stopped]_vars

====
